---- MODULE Spec2Model ----
(***************************************************************************)
(* The circuit breaker of api-gateway/circuitbreaker/circuit_breaker.go.   *)
(*                                                                         *)
(* Every method of CircuitBreaker takes cb.mu for its whole body, so each  *)
(* method is one atomic action.  Time is a discrete monotonic clock `now`; *)
(* time.Now() reads it and Tick advances it.  successRate is a float64 in  *)
(* the source; it is kept here as an exact fraction <<num, den>>, and the  *)
(* comparison float64(successCount)/float64(totalCount) < successRate is   *)
(* done by cross-multiplication (IEEE division is correctly rounded, so    *)
(* for the small counters and short decimal rates used here the float      *)
(* comparison and the exact one agree, equality included).                 *)
(***************************************************************************)
EXTENDS Integers, FiniteSets, Sequences

\* ---- bounds of the model ----
MaxThreshold == 3
MaxTimeout == 2
MaxCount == 5
MaxTime == 4
NumProcs == 2
MaxCalls == 3
NumReqs == 1
NumConns == 1
GwMaxTime == 2

\* successRate values a breaker may be constructed with
Rates == { <<0, 1>>, <<1, 2>>, <<3, 5>>, <<1, 1>> }

\* ---- CircuitBreakerState (iota) ----
StateClosed == 0
StateOpen == 1
StateHalfOpen == 2

\* the zero time.Time of a breaker that has recorded no failure yet
ZeroTime == -1

VARIABLES
    state,              \* cb.state
    failureCount,       \* cb.failureCount
    failureThreshold,   \* cb.failureThreshold
    resetTimeout,       \* cb.resetTimeout
    lastFailureTime,    \* cb.lastFailureTime
    successCount,       \* cb.successCount
    totalCount,         \* cb.totalCount
    successRate,        \* cb.successRate, as <<num, den>>
    now,                \* the monotonic clock
    op,                 \* the method called last
    ret,                \* what that call returned
    prevState,          \* cb.state when that call started
    failRun,            \* length of the current run of RecordFailure calls begun while Closed
    tripped,            \* such a run reached failureThreshold and resetTimeout has not been seen to elapse
    lastRecordFailure,  \* time of the last RecordFailure call
    trialFailAt,        \* time of the last RecordFailure made while HalfOpen, until resetTimeout is seen to elapse
    consecFailures,     \* recorded failures since the last recorded success
    openedAt,           \* time at which cb.state became StateOpen, ZeroTime while it is not Open
    flight,             \* per calling task: whether it has a request in flight and cb.state when it was admitted
    lastGot,            \* {value of the last GetState}, emptied by a RecordSuccess, a RecordFailure or a timeout-crossing AllowRequest
    mu,                 \* cb.mu: the goroutines holding it for writing (w) and for reading (r)
    pc,                 \* where each goroutine is in the method it called
    loc,                \* the values each goroutine has read: counters or state (a, b), clock (t)
    lin,                \* the breaker as the calls leave it when run one at a time in the order they release cb.mu
    conc,               \* calls started, calls started during another call, state changes of cb and of lin, returns agreeing with lin
    gb,                 \* cacheBreaker, the gobreaker.CircuitBreaker of the gateway
    req,                \* the /api/cache requests: handler position, downstream outcome, response
    tcg,                \* the goroutine started by /test-circuit
    clients,            \* the clients map: the registered websocket connections
    conn,               \* the websocket connections: status and messages written to them
    bcast,              \* the state_change events broadcast so far, << from, to >> each
    gmu,                \* the goroutine inside cacheBreaker (holding its mutex)
    bc,                 \* the range loops of broadcastStateChange under way
    ws,                 \* the /ws handlers: position and the state read for initial_state
    crashed             \* the runtime stopped the process (fatal error)

vars == << state, failureCount, failureThreshold, resetTimeout, lastFailureTime,
           successCount, totalCount, successRate, now, op, ret, prevState,
           failRun, tripped, lastRecordFailure, trialFailAt, consecFailures,
           openedAt, flight, lastGot, mu, pc, loc, lin, conc, gb, req, tcg, clients, conn, bcast,
           gmu, bc, ws, crashed >>

fgVars == << gmu, bc, ws, crashed >>

gwVars == << gb, req, tcg, clients, conn, bcast, fgVars >>

concVars == << mu, pc, loc, lin, conc >>

histVars == << op, ret, prevState, failRun, tripped, lastRecordFailure, trialFailAt,
               consecFailures, openedAt, flight, lastGot >>

Procs == 1..NumProcs
Reqs == 1..NumReqs
Conns == 1..NumConns

config == << failureThreshold, resetTimeout, successRate >>

\* ---- helpers translated from the method bodies ----

\* time.Since(cb.lastFailureTime) >= cb.resetTimeout; for the zero Time the
\* difference saturates at the maximal Duration, above every resetTimeout
TimeoutPassed_Strict(last, t) == last = ZeroTime \/ t - last > resetTimeout
TimeoutPassed(last, t) == last = ZeroTime \/ t - last >= resetTimeout

\* RecordFailure, the state after the counters were incremented (fc)
FailureNextState_Strict(s, fc) ==
    IF s = StateClosed
    THEN IF fc > failureThreshold THEN StateOpen ELSE s
    ELSE IF s = StateHalfOpen THEN StateOpen ELSE s
FailureNextState_TrialThreshold(s, fc) ==
    IF s \in {StateClosed, StateHalfOpen}
    THEN IF fc >= failureThreshold THEN StateOpen ELSE s
    ELSE s
FailureNextState(s, fc) ==
    IF s = StateClosed
    THEN IF fc >= failureThreshold THEN StateOpen ELSE s
    ELSE IF s = StateHalfOpen THEN StateOpen ELSE s

\* RecordFailure, cb.lastFailureTime on return: time.Now(), whatever the state
FailureTime_KeepWhenOpen(s, last, t) == IF s = StateOpen THEN last ELSE t
FailureTime(s, last, t) == t

\* currentSuccessRate < cb.successRate
RateBelow_OrEqual(sc, tc) == sc * successRate[2] <= successRate[1] * tc
RateBelow(sc, tc) == sc * successRate[2] < successRate[1] * tc

\* RecordSuccess, the state after the counters were incremented (sc, tc)
SuccessNextState_FromOpen(s, sc, tc) ==
    IF s \in {StateHalfOpen, StateOpen} THEN StateClosed
    ELSE IF s = StateClosed /\ tc > 0 /\ RateBelow(sc, tc) THEN StateOpen
    ELSE s
SuccessNextState(s, sc, tc) ==
    IF s = StateHalfOpen THEN StateClosed
    ELSE IF s = StateClosed /\ tc > 0 /\ RateBelow(sc, tc) THEN StateOpen
    ELSE s

\* RecordSuccess, cb.failureCount on return
SuccessFailureCount_Keep(s, fc) == fc
SuccessFailureCount_ResetAlways(s, fc) == 0
SuccessFailureCount(s, fc) == IF s = StateHalfOpen THEN 0 ELSE fc

\* RecordSuccess, << cb.successCount, cb.totalCount >> on return
SuccessCounters_ResetTotalOnly(s, sc, tc) ==
    IF s = StateHalfOpen THEN << sc + 1, 0 >> ELSE << sc + 1, tc + 1 >>
SuccessCounters_Accumulate(s, sc, tc) == << sc + 1, tc + 1 >>
SuccessCounters(s, sc, tc) ==
    IF s = StateHalfOpen THEN << 0, 0 >> ELSE << sc + 1, tc + 1 >>

\* AllowRequest, the switch on cb.state; passed is the outcome of the
\* time.Since test of the StateOpen case
AllowNextState_NeverHalfOpen(s, passed) == s
AllowNextState(s, passed) ==
    IF s = StateOpen /\ passed THEN StateHalfOpen ELSE s
AllowResult_HalfOpenDenied(s, passed) ==
    IF s = StateClosed THEN TRUE
    ELSE IF s = StateOpen THEN passed
    ELSE FALSE
AllowResult(s, passed) ==
    IF s = StateClosed THEN TRUE
    ELSE IF s = StateOpen THEN passed
    ELSE IF s = StateHalfOpen THEN TRUE
    ELSE FALSE

\* ---- the gateway: cacheBreaker and its Settings ----

\* MaxRequests: 1
GbMaxRequests_Two == 1 + 1
GbMaxRequests == 1
\* Timeout: 10 * time.Second; the gateway clock counts units of 10 s
GbTimeout == 1
\* ReadyToTrip: counts.ConsecutiveFailures >= 3
ReadyToTrip(counts) == counts.consecutiveFailures >= 3

\* /test-circuit: 3 simulated failures, up to 5 simulated successes
TestFailures == 3
TestSuccessTries == 5

\* what the cache service (or the transport) answers to one call
Outcomes ==
    { [kind |-> "error", status |-> 0, body |-> "connection refused"],
      [kind |-> "response", status |-> 200, body |-> "value"],
      [kind |-> "response", status |-> 500, body |-> "cache failure"] }
NoOutcome == [kind |-> "none", status |-> 0, body |-> ""]
NoResult == [status |-> 0, body |-> ""]

NewRequest ==
    [pc |-> "new", method |-> "", gen |-> 0, attempts |-> 0, err |-> "nil",
     out |-> NoOutcome, recorded |-> "none", result |-> NoResult]

\* the goroutines that call into cacheBreaker or use the clients map
Free == << "free", 0 >>
Tcg == << "tcg", 0 >>
WsG(c) == << "ws", c >>
RqG(r) == << "rq", r >>

\* a broadcastStateChange runs inside the breaker call that changed the state
\* ("locked") or is called by the /test-circuit goroutine itself ("forced")
Slots == { "locked", "forced" }
NoLoop == [on |-> FALSE, from |-> "", to |-> "", time |-> 0, todo |-> {}, cur |-> 0]

\* gobreaker.NewCircuitBreaker(Settings{...}), no request, no connection
GwInit ==
    /\ gb = [state |-> "closed", generation |-> 0, requests |-> 0,
             consecutiveFailures |-> 0, consecutiveSuccesses |-> 0,
             expiry |-> ZeroTime]
    /\ req = [r \in Reqs |-> NewRequest]
    /\ tcg = [pc |-> "idle", i |-> 0, gen |-> 0]
    /\ clients = {}
    /\ conn = [c \in Conns |-> [st |-> "new", inbox |-> << >>]]
    /\ bcast = << >>
    /\ gmu = Free
    /\ bc = [s \in Slots |-> NoLoop]
    /\ ws = [c \in Conns |-> [pc |-> "idle", state |-> ""]]
    /\ crashed = FALSE

\* the time the breaker entered Open, after a call at time t that took
\* cb.state from s to s2
OpenedAt(s, s2, t, old) ==
    IF s2 # StateOpen THEN ZeroTime ELSE IF s # StateOpen THEN t ELSE old

\* ---- NewCircuitBreaker ----
Init ==
    /\ state = StateClosed
    /\ failureCount = 0
    /\ failureThreshold \in 1..MaxThreshold
    /\ resetTimeout \in 0..MaxTimeout
    /\ lastFailureTime = ZeroTime
    /\ successCount = 0
    /\ totalCount = 0
    /\ successRate \in Rates
    /\ now = 0
    /\ op = "NewCircuitBreaker"
    /\ ret = FALSE
    /\ prevState = StateClosed
    /\ failRun = 0
    /\ tripped = FALSE
    /\ lastRecordFailure = ZeroTime
    /\ trialFailAt = ZeroTime
    /\ consecFailures = 0
    /\ openedAt = ZeroTime
    /\ flight = [p \in Procs |-> [on |-> FALSE, at |-> StateClosed]]
    /\ lastGot = {}
    /\ mu = [w |-> {}, r |-> {}]
    /\ pc = [p \in Procs |-> "idle"]
    /\ loc = [p \in Procs |-> [a |-> 0, b |-> 0, t |-> 0]]
    /\ lin = [state |-> StateClosed, failureCount |-> 0, successCount |-> 0,
              totalCount |-> 0, lastFailureTime |-> ZeroTime]
    /\ conc = [calls |-> 0, overlaps |-> 0, trans |-> 0, linTrans |-> 0, agree |-> TRUE]
    /\ GwInit

\* ---- GetState ----
GetState_Lazy ==
    /\ state' = IF state = StateOpen /\ TimeoutPassed(lastFailureTime, now)
                THEN StateHalfOpen ELSE state
    /\ op' = "GetState"
    /\ ret' = state'
    /\ prevState' = state
    /\ lastGot' = {state'}
    /\ UNCHANGED << concVars, gwVars >>
    /\ UNCHANGED << failureCount, lastFailureTime, successCount, totalCount,
                    config, now, failRun, tripped, lastRecordFailure, trialFailAt,
                    consecFailures >>
    /\ openedAt' = OpenedAt(state, state', now, openedAt)
    /\ UNCHANGED flight
GetState ==
    /\ op' = "GetState"
    /\ ret' = state
    /\ prevState' = state
    /\ lastGot' = {state}
    /\ UNCHANGED << concVars, gwVars >>
    /\ UNCHANGED << state, failureCount, lastFailureTime, successCount, totalCount,
                    config, now, failRun, tripped, lastRecordFailure, trialFailAt,
                    consecFailures >>
    /\ openedAt' = OpenedAt(state, state', now, openedAt)
    /\ UNCHANGED flight

\* ---- RecordFailure ----
RecordFailure ==
    /\ totalCount < MaxCount
    /\ failureCount' = failureCount + 1
    /\ totalCount' = totalCount + 1
    /\ lastFailureTime' = FailureTime(state, lastFailureTime, now)
    /\ state' = FailureNextState(state, failureCount + 1)
    /\ op' = "RecordFailure"
    /\ ret' = FALSE
    /\ prevState' = state
    /\ failRun' = IF failRun > 0 THEN failRun + 1
                  ELSE IF state = StateClosed THEN 1 ELSE 0
    /\ tripped' = (failRun' >= failureThreshold)
    /\ lastRecordFailure' = now
    /\ trialFailAt' = IF state = StateHalfOpen THEN now ELSE trialFailAt
    /\ consecFailures' = consecFailures + 1
    /\ openedAt' = OpenedAt(state, state', now, openedAt)
    /\ UNCHANGED flight
    /\ lastGot' = {}
    /\ UNCHANGED << concVars, gwVars >>
    /\ UNCHANGED << successCount, config, now >>

\* ---- RecordSuccess ----
RecordSuccess ==
    /\ state = StateHalfOpen \/ totalCount < MaxCount
    /\ state' = SuccessNextState(state, successCount + 1, totalCount + 1)
    /\ failureCount' = SuccessFailureCount(state, failureCount)
    /\ successCount' = SuccessCounters(state, successCount, totalCount)[1]
    /\ totalCount' = SuccessCounters(state, successCount, totalCount)[2]
    /\ op' = "RecordSuccess"
    /\ ret' = FALSE
    /\ prevState' = state
    /\ failRun' = 0
    /\ tripped' = FALSE
    /\ consecFailures' = 0
    /\ openedAt' = OpenedAt(state, state', now, openedAt)
    /\ UNCHANGED flight
    /\ lastGot' = {}
    /\ UNCHANGED << concVars, gwVars >>
    /\ UNCHANGED << lastFailureTime, config, now, lastRecordFailure, trialFailAt >>

\* ---- AllowRequest ----
AllowRequest ==
    /\ state' = AllowNextState(state, TimeoutPassed(lastFailureTime, now))
    /\ ret' = AllowResult(state, TimeoutPassed(lastFailureTime, now))
    /\ op' = "AllowRequest"
    /\ prevState' = state
    /\ failRun' = 0
    /\ tripped' = (tripped /\ now - lastRecordFailure < resetTimeout)
    /\ trialFailAt' = IF trialFailAt # ZeroTime /\ now - trialFailAt < resetTimeout
                      THEN trialFailAt ELSE ZeroTime
    /\ lastGot' = IF state = StateOpen /\ now - lastFailureTime >= resetTimeout
                  THEN {} ELSE lastGot
    /\ UNCHANGED << concVars, gwVars >>
    /\ UNCHANGED << failureCount, lastFailureTime, successCount, totalCount,
                    config, now, lastRecordFailure, consecFailures >>
    /\ openedAt' = OpenedAt(state, state', now, openedAt)
    /\ UNCHANGED flight

\* ---- the clock advances between calls ----
Tick ==
    /\ now < MaxTime
    /\ now' = now + 1
    /\ op' = "Tick"
    /\ ret' = FALSE
    /\ prevState' = state
    /\ UNCHANGED << state, failureCount, lastFailureTime, successCount, totalCount,
                    config, failRun, tripped, lastRecordFailure, trialFailAt,
                    consecFailures, openedAt, flight, lastGot, concVars, gwVars >>

Next ==
    \/ GetState
    \/ RecordFailure
    \/ RecordSuccess
    \/ AllowRequest
    \/ Tick

Spec == Init /\ [][Next]_vars

(***************************************************************************)
(* The same methods run by NumProcs goroutines, one memory access or       *)
(* statement group at a time.  cb.mu is a sync.RWMutex: Lock waits until   *)
(* nobody holds it, RLock until no writer holds it; the deferred Unlock    *)
(* runs with the last statement of the method.                             *)
(***************************************************************************)

\* cb.mu.Lock() may return
CanLock_NoExclusion(m) == TRUE
CanLock(m) == m.w = {} /\ m.r = {}

\* cb.mu.RLock() may return
CanRLock(m) == m.w = {}

\* the fields of cb as a record
Fields ==
    [state |-> state, failureCount |-> failureCount, successCount |-> successCount,
     totalCount |-> totalCount, lastFailureTime |-> lastFailureTime]

\* one whole RecordFailure at time t on breaker b
SerialRecordFailure(b, t) ==
    [state |-> FailureNextState(b.state, b.failureCount + 1),
     failureCount |-> b.failureCount + 1,
     successCount |-> b.successCount,
     totalCount |-> b.totalCount + 1,
     lastFailureTime |-> t]

\* one whole RecordSuccess on breaker b
SerialRecordSuccess(b) ==
    [state |-> SuccessNextState(b.state, b.successCount + 1, b.totalCount + 1),
     failureCount |-> SuccessFailureCount(b.state, b.failureCount),
     successCount |-> SuccessCounters(b.state, b.successCount, b.totalCount)[1],
     totalCount |-> SuccessCounters(b.state, b.successCount, b.totalCount)[2],
     lastFailureTime |-> b.lastFailureTime]

\* one whole AllowRequest at time t on breaker b
SerialAllowRequest(b, t) ==
    [b EXCEPT !.state = AllowNextState(b.state, TimeoutPassed(b.lastFailureTime, t))]

\* a goroutine calls a method and reaches its cb.mu.Lock() / RLock()
Call(p, m) ==
    /\ pc[p] = "idle"
    /\ conc.calls < MaxCalls
    /\ pc' = [pc EXCEPT ![p] = m]
    /\ conc' = [conc EXCEPT !.calls = @ + 1,
                            !.overlaps = IF \E q \in Procs : pc[q] # "idle"
                                         THEN @ + 1 ELSE @]
    /\ UNCHANGED << state, failureCount, lastFailureTime, successCount, totalCount,
                    config, now, histVars, gwVars, mu, loc, lin >>

CallRecordFailure(p) == Call(p, "rf_lock")
CallRecordSuccess(p) == Call(p, "rs_lock")
CallAllowRequest(p) == Call(p, "ar_lock")
CallGetState(p) == Call(p, "gs_lock")

\* cb.mu.Lock() returns
Lock(p) ==
    /\ pc[p] \in {"rf_lock", "rs_lock", "ar_lock"}
    /\ CanLock(mu)
    /\ mu' = [mu EXCEPT !.w = @ \cup {p}]
    /\ pc' = [pc EXCEPT ![p] = CASE pc[p] = "rf_lock" -> "rf_load"
                                 [] pc[p] = "rs_lock" -> "rs_load"
                                 [] pc[p] = "ar_lock" -> "ar_read"]
    /\ UNCHANGED << state, failureCount, lastFailureTime, successCount, totalCount,
                    config, now, histVars, gwVars, loc, lin, conc >>

\* cb.mu.RLock() returns
RLock(p) ==
    /\ pc[p] = "gs_lock"
    /\ CanRLock(mu)
    /\ mu' = [mu EXCEPT !.r = @ \cup {p}]
    /\ pc' = [pc EXCEPT ![p] = "gs_read"]
    /\ UNCHANGED << state, failureCount, lastFailureTime, successCount, totalCount,
                    config, now, histVars, gwVars, loc, lin, conc >>

\* the bookkeeping of a finished call: the lock is released, lin makes the
\* whole call (newLin), the state changes of cb and lin are counted
Finish(p, newLin, same) ==
    /\ mu' = [w |-> mu.w \ {p}, r |-> mu.r \ {p}]
    /\ pc' = [pc EXCEPT ![p] = "idle"]
    /\ loc' = [loc EXCEPT ![p] = [a |-> 0, b |-> 0, t |-> 0]]
    /\ lin' = newLin
    /\ conc' = [conc EXCEPT !.trans = IF state' # state THEN @ + 1 ELSE @,
                            !.linTrans = IF newLin.state # lin.state THEN @ + 1 ELSE @,
                            !.agree = @ /\ same]

\* RecordFailure: the reads of cb.failureCount++ and cb.totalCount++
RFLoad(p) ==
    /\ pc[p] = "rf_load"
    /\ loc' = [loc EXCEPT ![p] = [a |-> failureCount, b |-> totalCount, t |-> 0]]
    /\ pc' = [pc EXCEPT ![p] = "rf_store"]
    /\ UNCHANGED << state, failureCount, lastFailureTime, successCount, totalCount,
                    config, now, histVars, gwVars, mu, lin, conc >>

\* RecordFailure: the writes of the two increments and of cb.lastFailureTime
RFStore(p) ==
    /\ pc[p] = "rf_store"
    /\ failureCount' = loc[p].a + 1
    /\ totalCount' = loc[p].b + 1
    /\ lastFailureTime' = now
    /\ loc' = [loc EXCEPT ![p].t = now]
    /\ pc' = [pc EXCEPT ![p] = "rf_state"]
    /\ UNCHANGED << state, successCount, config, now, histVars, gwVars, mu, lin, conc >>

\* RecordFailure: the if on cb.state, then the deferred Unlock
RFFinish(p) ==
    /\ pc[p] = "rf_state"
    /\ state' = FailureNextState(state, failureCount)
    /\ Finish(p, SerialRecordFailure(lin, loc[p].t), TRUE)
    /\ UNCHANGED << failureCount, lastFailureTime, successCount, totalCount,
                    config, now, histVars, gwVars >>

\* RecordSuccess: the reads of cb.successCount++ and cb.totalCount++
RSLoad(p) ==
    /\ pc[p] = "rs_load"
    /\ loc' = [loc EXCEPT ![p] = [a |-> successCount, b |-> totalCount, t |-> 0]]
    /\ pc' = [pc EXCEPT ![p] = "rs_store"]
    /\ UNCHANGED << state, failureCount, lastFailureTime, successCount, totalCount,
                    config, now, histVars, gwVars, mu, lin, conc >>

\* RecordSuccess: the writes of the two increments
RSStore(p) ==
    /\ pc[p] = "rs_store"
    /\ successCount' = loc[p].a + 1
    /\ totalCount' = loc[p].b + 1
    /\ pc' = [pc EXCEPT ![p] = "rs_state"]
    /\ UNCHANGED << state, failureCount, lastFailureTime, config, now, histVars, gwVars,
                    mu, loc, lin, conc >>

\* RecordSuccess: the HalfOpen branch or the success-rate test, then the
\* deferred Unlock
RSFinish(p) ==
    /\ pc[p] = "rs_state"
    /\ IF state = StateHalfOpen
       THEN /\ state' = StateClosed
            /\ failureCount' = 0
            /\ successCount' = 0
            /\ totalCount' = 0
       ELSE /\ state' = IF state = StateClosed /\ totalCount > 0
                             /\ RateBelow(successCount, totalCount)
                        THEN StateOpen ELSE state
            /\ UNCHANGED << failureCount, successCount, totalCount >>
    /\ Finish(p, SerialRecordSuccess(lin), TRUE)
    /\ UNCHANGED << lastFailureTime, config, now, histVars, gwVars >>

\* AllowRequest: the switch reads cb.state, the StateOpen case evaluates
\* time.Since(cb.lastFailureTime) >= cb.resetTimeout
ARRead(p) ==
    /\ pc[p] = "ar_read"
    /\ loc' = [loc EXCEPT ![p] =
                  [a |-> state,
                   b |-> IF TimeoutPassed(lastFailureTime, now) THEN 1 ELSE 0,
                   t |-> now]]
    /\ pc' = [pc EXCEPT ![p] = "ar_write"]
    /\ UNCHANGED << state, failureCount, lastFailureTime, successCount, totalCount,
                    config, now, histVars, gwVars, mu, lin, conc >>

\* AllowRequest: cb.state = StateHalfOpen when the case asks for it, the
\* return, the deferred Unlock
ARFinish(p) ==
    /\ pc[p] = "ar_write"
    /\ state' = IF loc[p].a = StateOpen /\ loc[p].b = 1 THEN StateHalfOpen ELSE state
    /\ Finish(p, SerialAllowRequest(lin, loc[p].t),
              AllowResult(loc[p].a, loc[p].b = 1)
                 = AllowResult(lin.state, TimeoutPassed(lin.lastFailureTime, loc[p].t)))
    /\ UNCHANGED << failureCount, lastFailureTime, successCount, totalCount,
                    config, now, histVars, gwVars >>

\* GetState: return cb.state, the deferred RUnlock
GSFinish(p) ==
    /\ pc[p] = "gs_read"
    /\ UNCHANGED << state, failureCount, lastFailureTime, successCount, totalCount,
                    config, now, histVars, gwVars >>
    /\ Finish(p, lin, state = lin.state)

\* the clock advances, as far as the longest resetTimeout
ConcTick ==
    /\ now < MaxTimeout
    /\ now' = now + 1
    /\ UNCHANGED << state, failureCount, lastFailureTime, successCount, totalCount,
                    config, histVars, gwVars, concVars >>

ConcNext ==
    \/ \E p \in Procs : CallRecordFailure(p)
    \/ \E p \in Procs : CallRecordSuccess(p)
    \/ \E p \in Procs : CallAllowRequest(p)
    \/ \E p \in Procs : CallGetState(p)
    \/ \E p \in Procs : Lock(p)
    \/ \E p \in Procs : RLock(p)
    \/ \E p \in Procs : RFLoad(p)
    \/ \E p \in Procs : RFStore(p)
    \/ \E p \in Procs : RFFinish(p)
    \/ \E p \in Procs : RSLoad(p)
    \/ \E p \in Procs : RSStore(p)
    \/ \E p \in Procs : RSFinish(p)
    \/ \E p \in Procs : ARRead(p)
    \/ \E p \in Procs : ARFinish(p)
    \/ \E p \in Procs : GSFinish(p)
    \/ ConcTick

SpecConc == Init /\ [][ConcNext]_vars

(***************************************************************************)
(* The gateway.  cacheBreaker is a gobreaker.CircuitBreaker; Execute runs  *)
(* beforeRequest, the thunk, afterRequest, and calls OnStateChange (which  *)
(* broadcasts) from inside the call that changes the state.  The sleeps of *)
(* the /test-circuit goroutine are not modelled: its steps may be taken at *)
(* any time.                                                               *)
(***************************************************************************)

breakerVars == << state, failureCount, lastFailureTime, successCount, totalCount,
                  config, histVars, concVars >>

\* gobreaker: a new generation in state st at time t
GbNewGeneration(g, st, t) ==
    [state |-> st, generation |-> g.generation + 1, requests |-> 0,
     consecutiveFailures |-> 0, consecutiveSuccesses |-> 0,
     expiry |-> IF st = "open" THEN t + GbTimeout ELSE ZeroTime]

\* gobreaker: setState
GbSetState(g, st, t) == IF g.state = st THEN g ELSE GbNewGeneration(g, st, t)

\* gobreaker: currentState (Interval is 0: a closed generation never expires)
GbCurrentState(g, t) ==
    IF g.state = "open" /\ g.expiry < t THEN GbSetState(g, "half-open", t) ELSE g

\* gobreaker: beforeRequest, the breaker it leaves and the error it returns
GbBeforeRequest(g, t) ==
    LET c == GbCurrentState(g, t) IN
    IF c.state = "open" THEN [gb |-> c, err |-> "ErrOpenState"]
    ELSE IF c.state = "half-open" /\ c.requests >= GbMaxRequests
         THEN [gb |-> c, err |-> "ErrTooManyRequests"]
    ELSE [gb |-> [c EXCEPT !.requests = @ + 1], err |-> "nil"]

\* gobreaker: onSuccess
GbOnSuccess(c, t) ==
    LET d == [c EXCEPT !.consecutiveSuccesses = @ + 1, !.consecutiveFailures = 0] IN
    IF d.state = "half-open" /\ d.consecutiveSuccesses >= GbMaxRequests
    THEN GbSetState(d, "closed", t) ELSE d

\* gobreaker: onFailure
GbOnFailure(c, t) ==
    LET d == [c EXCEPT !.consecutiveFailures = @ + 1, !.consecutiveSuccesses = 0] IN
    IF d.state = "closed" THEN (IF ReadyToTrip(d) THEN GbSetState(d, "open", t) ELSE d)
    ELSE IF d.state = "half-open" THEN GbSetState(d, "open", t)
    ELSE d

\* gobreaker: afterRequest; an outcome of an older generation is dropped
GbAfterRequest(g, gen, success, t) ==
    LET c == GbCurrentState(g, t) IN
    IF c.generation # gen THEN c
    ELSE IF success THEN GbOnSuccess(c, t) ELSE GbOnFailure(c, t)

\* what afterRequest did with the outcome
GbRecorded(g, gen, success, t) ==
    IF GbCurrentState(g, t).generation # gen THEN "dropped"
    ELSE IF success THEN "success" ELSE "failure"

\* broadcastStateChange(from, to) at time t on the registry w =
\* [clients, conn, bcast]: WriteJSON to every client, a client whose write
\* fails is closed and deleted
BroadcastStateChange(w, from, to, t) ==
    [clients |-> {c \in w.clients : w.conn[c].st = "open"},
     conn |-> [c \in Conns |->
                 IF c \notin w.clients THEN w.conn[c]
                 ELSE IF w.conn[c].st = "open"
                      THEN [w.conn[c] EXCEPT !.inbox =
                              Append(@, [type |-> "state_change", from |-> from,
                                         to |-> to, time |-> t])]
                      ELSE [w.conn[c] EXCEPT !.st = "closed"]],
     bcast |-> Append(w.bcast, << from, to >>)]

\* OnStateChange: called by the breaker when a call moved it from g to g2
OnStateChange(w, g, g2, t) ==
    IF g.state # g2.state THEN BroadcastStateChange(w, g.state, g2.state, t) ELSE w

Registry == [clients |-> clients, conn |-> conn, bcast |-> bcast]

SetRegistry(w) ==
    /\ clients' = w.clients
    /\ conn' = w.conn
    /\ bcast' = w.bcast

\* the handlers call the cache service inside the thunk given to Execute:
\* once if Execute admits the request, not at all if it refuses
DownstreamCalls_Eager(admitted) == 1
DownstreamCalls(admitted) == IF admitted THEN 1 ELSE 0

\* the error of the thunk: http.DefaultClient.Do / http.Post return an error
\* for a transport failure only
ThunkError(out) == IF out.kind = "error" THEN out.body ELSE "nil"

\* what the handler writes to its caller after Execute returned err, out
HandlerResponse(m, err, out) ==
    IF err # "nil"
    THEN [status |-> 500,
          body |-> IF m = "GET" THEN "Failed to get cache" ELSE "Failed to set cache"]
    ELSE [status |-> out.status, body |-> out.body]

\* GET /api/cache/{key} or POST /api/cache: Execute up to the thunk (the
\* requests are numbered in the order they reach Execute)
HandleCacheBefore(r, m) ==
    /\ req[r].pc = "new"
    /\ \A q \in Reqs : q < r => req[q].pc # "new"
    /\ LET b == GbBeforeRequest(gb, now) IN
       /\ gb' = b.gb
       /\ SetRegistry(OnStateChange(Registry, gb, b.gb, now))
       /\ req' = [req EXCEPT ![r] =
                     IF b.err = "nil"
                     THEN [@ EXCEPT !.pc = "calling", !.method = m,
                                    !.gen = b.gb.generation,
                                    !.attempts = DownstreamCalls(TRUE)]
                     ELSE [@ EXCEPT !.pc = "done", !.method = m, !.err = b.err,
                                    !.attempts = DownstreamCalls(FALSE),
                                    !.result = HandlerResponse(m, b.err, NoOutcome)]]
    /\ UNCHANGED << now, tcg, breakerVars, fgVars >>

\* the thunk returns out, afterRequest records it, the handler answers
HandleCacheAfter(r, out) ==
    /\ req[r].pc = "calling"
    /\ LET err == ThunkError(out)
           g2 == GbAfterRequest(gb, req[r].gen, err = "nil", now) IN
       /\ gb' = g2
       /\ SetRegistry(OnStateChange(Registry, gb, g2, now))
       /\ req' = [req EXCEPT ![r] =
                     [@ EXCEPT !.pc = "done", !.err = err, !.out = out,
                               !.recorded = GbRecorded(gb, req[r].gen, err = "nil", now),
                               !.result = HandlerResponse(req[r].method, err, out)]]
    /\ UNCHANGED << now, tcg, breakerVars, fgVars >>

\* GET /test-circuit starts the goroutine
TestCircuitStart ==
    /\ tcg.pc = "idle"
    /\ tcg' = [pc |-> "fail_before", i |-> 0, gen |-> 0]
    /\ UNCHANGED << now, gb, req, clients, conn, bcast, breakerVars, fgVars >>

\* the goroutine: Execute of a simulated failure or success, up to the thunk
TestExecuteBefore ==
    /\ tcg.pc \in {"fail_before", "succ_before"}
    /\ LET b == GbBeforeRequest(gb, now)
           fail == tcg.pc = "fail_before"
           last == tcg.i + 1 >= (IF fail THEN TestFailures ELSE TestSuccessTries) IN
       /\ gb' = b.gb
       /\ SetRegistry(OnStateChange(Registry, gb, b.gb, now))
       /\ tcg' = IF b.err = "nil"
                THEN [tcg EXCEPT !.pc = IF fail THEN "fail_after" ELSE "succ_after",
                                !.gen = b.gb.generation]
                ELSE IF fail
                     THEN [pc |-> IF last THEN "succ_before" ELSE "fail_before",
                           i |-> IF last THEN 0 ELSE tcg.i + 1, gen |-> 0]
                     ELSE [pc |-> IF last THEN "final" ELSE "succ_before",
                           i |-> IF last THEN 0 ELSE tcg.i + 1, gen |-> 0]
    /\ UNCHANGED << now, req, breakerVars, fgVars >>

\* the goroutine: the thunk returned, afterRequest
TestExecuteAfter ==
    /\ tcg.pc \in {"fail_after", "succ_after"}
    /\ LET fail == tcg.pc = "fail_after"
           last == tcg.i + 1 >= TestFailures
           g2 == GbAfterRequest(gb, tcg.gen, ~fail, now) IN
       /\ gb' = g2
       /\ SetRegistry(OnStateChange(Registry, gb, g2, now))
       /\ tcg' = IF fail
                THEN [pc |-> IF last THEN "succ_before" ELSE "fail_before",
                      i |-> IF last THEN 0 ELSE tcg.i + 1, gen |-> 0]
                ELSE [pc |-> "final", i |-> 0, gen |-> 0]
    /\ UNCHANGED << now, req, breakerVars, fgVars >>

\* the goroutine: finalState := cacheBreaker.State(); if it is closed,
\* broadcastStateChange(StateHalfOpen, StateClosed)
TestFinal ==
    /\ tcg.pc = "final"
    /\ LET g2 == GbCurrentState(gb, now)
           w == OnStateChange(Registry, gb, g2, now) IN
       /\ gb' = g2
       /\ SetRegistry(IF g2.state = "closed"
                      THEN BroadcastStateChange(w, "half-open", "closed", now)
                      ELSE w)
    /\ tcg' = [pc |-> "done", i |-> 0, gen |-> 0]
    /\ UNCHANGED << now, req, breakerVars, fgVars >>

\* /ws: upgrade, clients[conn] = true, cacheBreaker.State(), initial_state
\* (the connections are numbered in the order they are made)
WsConnect(c) ==
    /\ conn[c].st = "new"
    /\ \A d \in Conns : d < c => conn[d].st # "new"
    /\ LET g2 == GbCurrentState(gb, now)
           w0 == [clients |-> clients \cup {c},
                  conn |-> [conn EXCEPT ![c].st = "open"],
                  bcast |-> bcast]
           w == OnStateChange(w0, gb, g2, now) IN
       /\ gb' = g2
       /\ SetRegistry([w EXCEPT !.conn[c].inbox =
                          Append(@, [type |-> "initial_state", state |-> g2.state])])
    /\ UNCHANGED << now, req, tcg, breakerVars, fgVars >>

\* the peer goes away: writes to the connection fail from now on
WsPeerClose(c) ==
    /\ conn[c].st = "open"
    /\ conn' = [conn EXCEPT ![c].st = "lost"]
    /\ UNCHANGED << now, gb, req, tcg, clients, bcast, breakerVars, fgVars >>

\* /ws: ReadMessage fails, the handler returns: delete(clients, conn),
\* conn.Close()
WsExit(c) ==
    /\ conn[c].st = "lost"
    /\ conn' = [conn EXCEPT ![c].st = "closed"]
    /\ clients' = clients \ {c}
    /\ UNCHANGED << now, gb, req, tcg, bcast, breakerVars, fgVars >>

\* the gateway clock advances
GwTick ==
    /\ now < GwMaxTime
    /\ now' = now + 1
    /\ UNCHANGED << gwVars, breakerVars >>

GwNext ==
    \/ \E r \in Reqs, m \in {"GET", "POST"} : HandleCacheBefore(r, m)
    \/ \E r \in Reqs, out \in Outcomes : HandleCacheAfter(r, out)
    \/ TestCircuitStart
    \/ TestExecuteBefore
    \/ TestExecuteAfter
    \/ TestFinal
    \/ \E c \in Conns : WsConnect(c)
    \/ \E c \in Conns : WsPeerClose(c)
    \/ \E c \in Conns : WsExit(c)
    \/ GwTick

\* the CircuitBreaker of package circuitbreaker is not used by the gateway
GwStart ==
    /\ Init
    /\ failureThreshold = 1
    /\ resetTimeout = 0
    /\ successRate = << 0, 1 >>

SpecGateway == GwStart /\ [][GwNext]_vars


(***************************************************************************)
(* authMiddleware is the outermost handler: every request passes it before *)
(* the router.  The cache requests of SpecGateway are those it lets        *)
(* through.  SpecNoKey is the gateway with clients that have no valid API  *)
(* key: no cache request gets past authMiddleware, so no thunk returns.    *)
(***************************************************************************)

\* config.APIKey
ApiKey == "secret"

\* the Authorization header of a request, split at " "; << >> is no header
Headers ==
    { << >>, << "Bearer" >>, << "Basic", "secret" >>, << "Bearer", "wrong" >>,
      << "Bearer", "secret" >> }

ValidHeader == << "Bearer", ApiKey >>

\* the paths authMiddleware lets through without looking at the header
AuthSkipped ==
    { "/health", "/metrics", "/monitor", "/ws", "/favicon.ico", "/test-circuit", "/" }

\* authMiddleware: "next" or the message of the 401 it answers
AuthMiddleware(path, h) ==
    IF path \in AuthSkipped THEN "next"
    ELSE IF h = << >> THEN "Authorization header required"
    ELSE IF Len(h) # 2 \/ h[1] # "Bearer" THEN "Invalid authorization header format"
    ELSE IF h[2] # ApiKey THEN "Invalid API key"
    ELSE "next"

\* authMiddleware answers 401: the handler is not called
Reject(r, m, h) ==
    /\ req[r].pc = "new"
    /\ \A q \in Reqs : q < r => req[q].pc # "new"
    /\ AuthMiddleware("/api/cache", h) # "next"
    /\ req' = [req EXCEPT ![r] =
                  [@ EXCEPT !.pc = "done", !.method = m, !.err = "Unauthorized",
                            !.result = [status |-> 401,
                                        body |-> AuthMiddleware("/api/cache", h)]]]
    /\ UNCHANGED << now, gb, tcg, clients, conn, bcast, breakerVars, fgVars >>

\* a request for /api/cache/{key} or /api/cache with header h
CacheRequest(r, m, h) ==
    IF AuthMiddleware("/api/cache", h) = "next"
    THEN HandleCacheBefore(r, m)
    ELSE Reject(r, m, h)

\* GET /test-circuit with header h
TestCircuitRequest(h) ==
    /\ AuthMiddleware("/test-circuit", h) = "next"
    /\ TestCircuitStart

\* GET /ws with header h
WsRequest(c, h) ==
    /\ AuthMiddleware("/ws", h) = "next"
    /\ WsConnect(c)

NoKeyNext ==
    \/ \E r \in Reqs, m \in {"GET", "POST"}, h \in Headers \ {ValidHeader} :
          CacheRequest(r, m, h)
    \/ \E h \in Headers \ {ValidHeader} : TestCircuitRequest(h)
    \/ TestExecuteBefore
    \/ TestExecuteAfter
    \/ TestFinal
    \/ \E c \in Conns, h \in Headers \ {ValidHeader} : WsRequest(c, h)
    \/ \E c \in Conns : WsPeerClose(c)
    \/ \E c \in Conns : WsExit(c)
    \/ GwTick

SpecNoKey == GwStart /\ [][NoKeyNext]_vars


(***************************************************************************)
(* The breaker with requests that keep arriving: time advances, callers    *)
(* keep asking AllowRequest and reporting successes.  Failures are         *)
(* reported only as long as the clock of the model can still run through   *)
(* the reset window that follows them.                                     *)
(***************************************************************************)

\* no failure is recorded from now on
FailuresStopped == now + resetTimeout > MaxTime

LiveRecordFailure ==
    /\ ~FailuresStopped
    /\ RecordFailure

LiveNext ==
    \/ LiveRecordFailure
    \/ RecordSuccess
    \/ AllowRequest
    \/ Tick

SpecLive ==
    /\ Init
    /\ [][LiveNext]_vars
    /\ WF_vars(Tick)
    /\ WF_vars(AllowRequest)
    /\ WF_vars(RecordSuccess)

\* breaker b after RecordFailure calls at time t, at most n, until it is Open
RECURSIVE FailUntilOpen(_, _, _)
FailUntilOpen(b, t, n) ==
    IF b.state = StateOpen \/ n = 0 THEN b
    ELSE FailUntilOpen(SerialRecordFailure(b, t), t, n - 1)

\* from breaker b at time t: failures until Open, then AllowRequest once
\* resetTimeout has passed, then RecordSuccess
CycleFrom(b, t) ==
    LET o == FailUntilOpen(b, t, failureThreshold)
        h == SerialAllowRequest(o, IF o.lastFailureTime + resetTimeout > t
                                   THEN o.lastFailureTime + resetTimeout ELSE t)
        c == SerialRecordSuccess(h)
    IN  << o, h, c >>


(***************************************************************************)
(* The gateway one statement at a time.  gobreaker runs beforeRequest,     *)
(* afterRequest and State under its mutex and calls OnStateChange, hence   *)
(* broadcastStateChange, before it unlocks.  The clients map has no lock:  *)
(* /ws handlers insert and delete, the range loop of broadcastStateChange  *)
(* reads and deletes.  A map write made while another goroutine ranges     *)
(* over the map is a data race: the runtime may stop the process with a    *)
(* fatal error, and the loop may or may not see the entry.  ReadMessage    *)
(* fails when the peer is gone or the connection was closed.               *)
(***************************************************************************)

cbVars == << state, failureCount, lastFailureTime, successCount, totalCount,
             config, histVars, concVars >>

\* the goroutine running the loop of slot s
Owner(s) == IF s = "locked" THEN gmu ELSE Tcg

\* a goroutine other than me is in a range loop over clients
Racing(me) == \E s \in Slots : bc[s].on /\ Owner(s) # me

\* broadcastStateChange(from, to) begins: message built, range clients
NewLoop(from, to, t) ==
    [on |-> TRUE, from |-> from, to |-> to, time |-> t, todo |-> clients, cur |-> 0]

\* the message of the loop of slot s
LoopMessage(s) ==
    [type |-> "state_change", from |-> bc[s].from, to |-> bc[s].to, time |-> bc[s].time]

\* the loops b after goroutine me inserted (k = "add"), deleted (k = "drop")
\* or left as the other loops see it (k = "keep") the entry c
RaceTodo(b, me, c, k) ==
    [s \in Slots |->
        IF b[s].on /\ Owner(s) # me
        THEN [b[s] EXCEPT !.todo = IF k = "add" THEN @ \cup {c}
                                   ELSE IF k = "drop" THEN @ \ {c} ELSE @]
        ELSE b[s]]

\* clients after WriteJSON to c returned (ok) or failed: delete(clients, c)
PruneAfterWrite_Always(cl, c, ok) == cl \ {c}
PruneAfterWrite(cl, c, ok) == IF ok THEN cl ELSE cl \ {c}

\* clients after the deferred delete(clients, conn) of the /ws handler
Unregister_Forgotten(cl, c) == cl
Unregister(cl, c) == cl \ {c}

\* the message the /ws handler sends first
InitialStateMessage_Closed(st) == [type |-> "initial_state", state |-> "closed"]
InitialStateMessage(st) == [type |-> "initial_state", state |-> st]

\* goroutine me calls into cacheBreaker, which goes from gb to g2; a change of
\* state starts broadcastStateChange with the mutex held
BreakerCall(me, g2) ==
    /\ ~crashed
    /\ gmu = Free
    /\ gb' = g2
    /\ IF gb.state # g2.state
       THEN /\ gmu' = me
            /\ bc' = [bc EXCEPT !["locked"] = NewLoop(gb.state, g2.state, now)]
            /\ bcast' = Append(bcast, << gb.state, g2.state >>)
       ELSE UNCHANGED << gmu, bc, bcast >>

\* for client := range clients
LoopNext(s) ==
    /\ ~crashed
    /\ bc[s].on
    /\ bc[s].cur = 0
    /\ \E c \in bc[s].todo :
          bc' = [bc EXCEPT ![s].cur = c, ![s].todo = @ \ {c}]
    /\ UNCHANGED << now, gb, req, tcg, clients, conn, bcast, gmu, ws, crashed, cbVars >>

\* client.WriteJSON(message); on error client.Close(), delete(clients, client)
LoopWrite(s) ==
    /\ ~crashed
    /\ bc[s].on
    /\ bc[s].cur # 0
    /\ LET c == bc[s].cur
           ok == conn[c].st = "open"
           b == [bc EXCEPT ![s].cur = 0] IN
       /\ conn' = [conn EXCEPT ![c] =
                      IF ok THEN [@ EXCEPT !.inbox = Append(@, LoopMessage(s))]
                      ELSE [@ EXCEPT !.st = "closed"]]
       /\ clients' = PruneAfterWrite(clients, c, ok)
       /\ IF ~ok /\ Racing(Owner(s))
          THEN /\ crashed' \in BOOLEAN
               /\ \E k \in {"drop", "keep"} : bc' = RaceTodo(b, Owner(s), c, k)
          ELSE /\ crashed' = crashed
               /\ bc' = b
    /\ UNCHANGED << now, gb, req, tcg, bcast, gmu, ws, cbVars >>

\* the loop ends; OnStateChange returns and the breaker unlocks
LoopEnd(s) ==
    /\ ~crashed
    /\ bc[s].on
    /\ bc[s].cur = 0
    /\ bc[s].todo = {}
    /\ bc' = [bc EXCEPT ![s] = NoLoop]
    /\ gmu' = IF s = "locked" THEN Free ELSE gmu
    /\ UNCHANGED << now, gb, req, tcg, clients, conn, bcast, ws, crashed, cbVars >>

\* Execute of a cache handler up to the thunk
FgCacheBefore(r, m) ==
    /\ req[r].pc = "new"
    /\ \A q \in Reqs : q < r => req[q].pc # "new"
    /\ LET b == GbBeforeRequest(gb, now) IN
       /\ BreakerCall(RqG(r), b.gb)
       /\ req' = [req EXCEPT ![r] =
                     IF b.err = "nil"
                     THEN [@ EXCEPT !.pc = "calling", !.method = m,
                                    !.gen = b.gb.generation,
                                    !.attempts = DownstreamCalls(TRUE)]
                     ELSE [@ EXCEPT !.pc = "respond", !.method = m, !.err = b.err,
                                    !.attempts = DownstreamCalls(FALSE)]]
    /\ UNCHANGED << now, tcg, clients, conn, ws, crashed, cbVars >>

\* the thunk returns out: afterRequest
FgCacheAfter(r, out) ==
    /\ req[r].pc = "calling"
    /\ gmu # RqG(r)
    /\ LET err == ThunkError(out) IN
       /\ BreakerCall(RqG(r), GbAfterRequest(gb, req[r].gen, err = "nil", now))
       /\ req' = [req EXCEPT ![r] =
                     [@ EXCEPT !.pc = "respond", !.gen = 0, !.err = err, !.out = out,
                               !.recorded = GbRecorded(gb, req[r].gen, err = "nil", now)]]
    /\ UNCHANGED << now, tcg, clients, conn, ws, crashed, cbVars >>

\* Execute has returned: the handler answers
FgRespond(r) ==
    /\ ~crashed
    /\ req[r].pc = "respond"
    /\ gmu # RqG(r)
    /\ req' = [req EXCEPT ![r] =
                  [@ EXCEPT !.pc = "done",
                            !.result = HandlerResponse(req[r].method, req[r].err,
                                                       req[r].out)]]
    /\ UNCHANGED << now, gb, tcg, clients, conn, bcast, gmu, bc, ws, crashed, cbVars >>

\* GET /test-circuit starts the goroutine
FgTestStart ==
    /\ ~crashed
    /\ tcg.pc = "idle"
    /\ tcg' = [pc |-> "fail_before", i |-> 0, gen |-> 0]
    /\ UNCHANGED << now, gb, req, clients, conn, bcast, fgVars, cbVars >>

\* the goroutine: Execute up to the thunk
FgTestBefore ==
    /\ tcg.pc \in {"fail_before", "succ_before"}
    /\ gmu # Tcg
    /\ LET b == GbBeforeRequest(gb, now)
           fail == tcg.pc = "fail_before"
           last == tcg.i + 1 >= (IF fail THEN TestFailures ELSE TestSuccessTries) IN
       /\ BreakerCall(Tcg, b.gb)
       /\ tcg' = IF b.err = "nil"
                THEN [tcg EXCEPT !.pc = IF fail THEN "fail_after" ELSE "succ_after",
                                !.gen = b.gb.generation]
                ELSE IF fail
                     THEN [pc |-> IF last THEN "succ_before" ELSE "fail_before",
                           i |-> IF last THEN 0 ELSE tcg.i + 1, gen |-> 0]
                     ELSE [pc |-> IF last THEN "final" ELSE "succ_before",
                           i |-> IF last THEN 0 ELSE tcg.i + 1, gen |-> 0]
    /\ UNCHANGED << now, req, clients, conn, ws, crashed, cbVars >>

\* the goroutine: the thunk returned, afterRequest
FgTestAfter ==
    /\ tcg.pc \in {"fail_after", "succ_after"}
    /\ gmu # Tcg
    /\ LET fail == tcg.pc = "fail_after"
           last == tcg.i + 1 >= TestFailures IN
       /\ BreakerCall(Tcg, GbAfterRequest(gb, tcg.gen, ~fail, now))
       /\ tcg' = IF fail
                THEN [pc |-> IF last THEN "succ_before" ELSE "fail_before",
                      i |-> IF last THEN 0 ELSE tcg.i + 1, gen |-> 0]
                ELSE [pc |-> "final", i |-> 0, gen |-> 0]
    /\ UNCHANGED << now, req, clients, conn, ws, crashed, cbVars >>

\* the goroutine: finalState := cacheBreaker.State()
FgTestFinal ==
    /\ tcg.pc = "final"
    /\ gmu # Tcg
    /\ LET g2 == GbCurrentState(gb, now) IN
       /\ BreakerCall(Tcg, g2)
       /\ tcg' = [pc |-> IF g2.state = "closed" THEN "forced" ELSE "done",
                  i |-> 0, gen |-> 0]
    /\ UNCHANGED << now, req, clients, conn, ws, crashed, cbVars >>

\* the goroutine: broadcastStateChange(StateHalfOpen, StateClosed), its last
\* statement
FgTestForced ==
    /\ ~crashed
    /\ tcg.pc = "forced"
    /\ gmu # Tcg
    /\ bc' = [bc EXCEPT !["forced"] = NewLoop("half-open", "closed", now)]
    /\ bcast' = Append(bcast, << "half-open", "closed" >>)
    /\ tcg' = [pc |-> "done", i |-> 0, gen |-> 0]
    /\ UNCHANGED << now, gb, req, clients, conn, gmu, ws, crashed, cbVars >>

\* /ws: upgrader.Upgrade, clients[conn] = true
FgRegister(c) ==
    /\ ~crashed
    /\ ws[c].pc = "idle"
    /\ \A d \in Conns : d < c => ws[d].pc # "idle"
    /\ conn' = [conn EXCEPT ![c].st = "open"]
    /\ clients' = clients \cup {c}
    /\ ws' = [ws EXCEPT ![c].pc = "state"]
    /\ IF Racing(WsG(c))
       THEN /\ crashed' \in BOOLEAN
            /\ \E k \in {"add", "keep"} : bc' = RaceTodo(bc, WsG(c), c, k)
       ELSE UNCHANGED << crashed, bc >>
    /\ UNCHANGED << now, gb, req, tcg, bcast, gmu, cbVars >>

\* /ws: currentState := cacheBreaker.State().String()
FgState(c) ==
    /\ ws[c].pc = "state"
    /\ LET g2 == GbCurrentState(gb, now) IN
       /\ BreakerCall(WsG(c), g2)
       /\ ws' = [ws EXCEPT ![c] = [pc |-> "send", state |-> g2.state]]
    /\ UNCHANGED << now, req, tcg, clients, conn, crashed, cbVars >>

\* /ws: conn.WriteJSON(initial_state); on error return
FgSend(c) ==
    /\ ~crashed
    /\ ws[c].pc = "send"
    /\ gmu # WsG(c)
    /\ IF conn[c].st = "open"
       THEN /\ conn' = [conn EXCEPT ![c].inbox =
                           Append(@, InitialStateMessage(ws[c].state))]
            /\ ws' = [ws EXCEPT ![c] = [pc |-> "reading", state |-> ""]]
       ELSE /\ conn' = conn
            /\ ws' = [ws EXCEPT ![c] = [pc |-> "exit", state |-> ""]]
    /\ UNCHANGED << now, gb, req, tcg, clients, bcast, gmu, bc, crashed, cbVars >>

\* the peer goes away: reads and writes fail from now on
FgPeerClose(c) ==
    /\ ~crashed
    /\ conn[c].st = "open"
    /\ conn' = [conn EXCEPT ![c].st = "lost"]
    /\ UNCHANGED << now, gb, req, tcg, clients, bcast, fgVars, cbVars >>

\* /ws: conn.ReadMessage() returns an error, break
FgReadFail(c) ==
    /\ ~crashed
    /\ ws[c].pc = "reading"
    /\ conn[c].st \in {"lost", "closed"}
    /\ ws' = [ws EXCEPT ![c].pc = "exit"]
    /\ UNCHANGED << now, gb, req, tcg, clients, conn, bcast, gmu, bc, crashed, cbVars >>

\* /ws returns: the deferred delete(clients, conn)
FgExitDelete(c) ==
    /\ ~crashed
    /\ ws[c].pc = "exit"
    /\ clients' = Unregister(clients, c)
    /\ ws' = [ws EXCEPT ![c].pc = "close"]
    /\ IF Racing(WsG(c))
       THEN /\ crashed' \in BOOLEAN
            /\ \E k \in {"drop", "keep"} : bc' = RaceTodo(bc, WsG(c), c, k)
       ELSE UNCHANGED << crashed, bc >>
    /\ UNCHANGED << now, gb, req, tcg, conn, bcast, gmu, cbVars >>

\* /ws returns: the deferred conn.Close()
FgExitClose(c) ==
    /\ ~crashed
    /\ ws[c].pc = "close"
    /\ conn' = [conn EXCEPT ![c].st = "closed"]
    /\ ws' = [ws EXCEPT ![c].pc = "done"]
    /\ UNCHANGED << now, gb, req, tcg, clients, bcast, gmu, bc, crashed, cbVars >>

\* the gateway clock advances
FgTick ==
    /\ ~crashed
    /\ now < GwMaxTime
    /\ now' = now + 1
    /\ UNCHANGED << gwVars, cbVars >>

\* the /test-circuit goroutine, the broadcasts and the /ws handlers
FgNext ==
    \/ FgTestStart
    \/ FgTestBefore
    \/ FgTestAfter
    \/ FgTestFinal
    \/ FgTestForced
    \/ \E s \in Slots : LoopNext(s)
    \/ \E s \in Slots : LoopWrite(s)
    \/ \E s \in Slots : LoopEnd(s)
    \/ \E c \in Conns : FgRegister(c)
    \/ \E c \in Conns : FgState(c)
    \/ \E c \in Conns : FgSend(c)
    \/ \E c \in Conns : FgPeerClose(c)
    \/ \E c \in Conns : FgReadFail(c)
    \/ \E c \in Conns : FgExitDelete(c)
    \/ \E c \in Conns : FgExitClose(c)
    \/ FgTick

\* the gateway with no cache request: the breaker is driven by /test-circuit
\* and by the State() calls of the /ws handlers
SpecWs == GwStart /\ [][FgNext]_vars

FgReqNext ==
    \/ \E r \in Reqs, m \in {"GET", "POST"} : FgCacheBefore(r, m)
    \/ \E r \in Reqs, out \in Outcomes : FgCacheAfter(r, out)
    \/ \E r \in Reqs : FgRespond(r)
    \/ FgNext

\* the same with cache requests
SpecWsReq == GwStart /\ [][FgReqNext]_vars


(***************************************************************************)
(* The breaker with its callers.  A task asks AllowRequest, makes the      *)
(* guarded call outside cb.mu when admitted, and reports the outcome with  *)
(* RecordSuccess or RecordFailure; several tasks do so at once.  The       *)
(* methods take no argument, so a report carries nothing about the         *)
(* admission it belongs to.                                                *)
(***************************************************************************)

\* what the model remembers of the calls, left alone here
flightKept == << failRun, tripped, lastRecordFailure, trialFailAt, consecFailures,
                 lastGot, concVars, gwVars >>

\* task p calls AllowRequest; admitted, its request is in flight
FlAllow(p) ==
    /\ ~flight[p].on
    /\ state' = AllowNextState(state, TimeoutPassed(lastFailureTime, now))
    /\ ret' = AllowResult(state, TimeoutPassed(lastFailureTime, now))
    /\ op' = "AllowRequest"
    /\ prevState' = state
    /\ openedAt' = OpenedAt(state, state', now, openedAt)
    /\ flight' = [flight EXCEPT ![p] = [on |-> ret', at |-> IF ret' THEN state' ELSE StateClosed]]
    /\ UNCHANGED << failureCount, lastFailureTime, successCount, totalCount,
                    config, now, flightKept >>

\* the guarded call of task p succeeded: RecordSuccess
FlSuccess(p) ==
    /\ flight[p].on
    /\ state = StateHalfOpen \/ totalCount < MaxCount
    /\ state' = SuccessNextState(state, successCount + 1, totalCount + 1)
    /\ failureCount' = SuccessFailureCount(state, failureCount)
    /\ successCount' = SuccessCounters(state, successCount, totalCount)[1]
    /\ totalCount' = SuccessCounters(state, successCount, totalCount)[2]
    /\ op' = "RecordSuccess"
    /\ ret' = FALSE
    /\ prevState' = state
    /\ openedAt' = OpenedAt(state, state', now, openedAt)
    /\ flight' = [flight EXCEPT ![p] = [on |-> FALSE, at |-> StateClosed]]
    /\ UNCHANGED << lastFailureTime, config, now, flightKept >>

\* the guarded call of task p failed: RecordFailure
FlFailure(p) ==
    /\ flight[p].on
    /\ totalCount < MaxCount
    /\ failureCount' = failureCount + 1
    /\ totalCount' = totalCount + 1
    /\ lastFailureTime' = FailureTime(state, lastFailureTime, now)
    /\ state' = FailureNextState(state, failureCount + 1)
    /\ op' = "RecordFailure"
    /\ ret' = FALSE
    /\ prevState' = state
    /\ openedAt' = OpenedAt(state, state', now, openedAt)
    /\ flight' = [flight EXCEPT ![p] = [on |-> FALSE, at |-> StateClosed]]
    /\ UNCHANGED << successCount, config, now, flightKept >>

FlNext ==
    \/ \E p \in Procs : FlAllow(p)
    \/ \E p \in Procs : FlSuccess(p)
    \/ \E p \in Procs : FlFailure(p)
    \/ Tick

SpecFlight == Init /\ [][FlNext]_vars


\* ---- C1 .. C10 ----

\* C1: starting Closed, once failureThreshold consecutive RecordFailure calls
\* were made the state is Open, and every AllowRequest made before
\* resetTimeout has elapsed since the last RecordFailure returns false and
\* leaves the state Open.
C1_ThresholdTripStaysOpen ==
    tripped => (state = StateOpen /\ (op = "AllowRequest" => ret = FALSE))

C1_Witness ==
    /\ tripped
    /\ op = "AllowRequest"
    /\ prevState = StateOpen
    /\ ret = FALSE
    /\ state = StateOpen
    /\ failureThreshold > 1

\* C2: AllowRequest while Open returns true and moves to HalfOpen if and only
\* if now - lastFailureTime >= resetTimeout; otherwise it returns false and
\* changes neither the state, nor a counter, nor lastFailureTime.
C2_OpenAdmission ==
    [][ (op' = "AllowRequest" /\ state = StateOpen) =>
          /\ (ret' = TRUE /\ state' = StateHalfOpen)
                <=> (now - lastFailureTime >= resetTimeout)
          /\ (now - lastFailureTime < resetTimeout) =>
                /\ ret' = FALSE
                /\ UNCHANGED << state, failureCount, successCount, totalCount,
                                lastFailureTime >> ]_vars

C2_Witness ==
    /\ op = "AllowRequest"
    /\ prevState = StateOpen
    /\ ret = TRUE
    /\ state = StateHalfOpen
    /\ resetTimeout > 0
    /\ now - lastFailureTime = resetTimeout

\* C3: a RecordSuccess made while HalfOpen moves the breaker to Closed with
\* failureCount = 0, whatever the counters were.
C3_TrialSuccessCloses ==
    [][ (op' = "RecordSuccess" /\ state = StateHalfOpen) =>
          (state' = StateClosed /\ failureCount' = 0) ]_vars

C3_Witness ==
    /\ op = "RecordSuccess"
    /\ prevState = StateHalfOpen
    /\ state = StateClosed
    /\ failureCount = 0
    /\ failureThreshold = MaxThreshold

\* C4: a RecordFailure made while HalfOpen moves the breaker to Open whatever
\* failureCount and failureThreshold are and sets lastFailureTime to the time
\* of that failure; AllowRequest is then refused until resetTimeout has
\* elapsed since that trial failure.
C4_TrialFailureReopens ==
    /\ [][ (op' = "RecordFailure" /\ state = StateHalfOpen) =>
             (state' = StateOpen /\ lastFailureTime' = now) ]_vars
    /\ [](trialFailAt # ZeroTime =>
             (state = StateOpen /\ (op = "AllowRequest" => ret = FALSE)))

C4_Witness ==
    /\ trialFailAt # ZeroTime
    /\ op = "AllowRequest"
    /\ ret = FALSE
    /\ state = StateOpen
    /\ failureCount < failureThreshold

\* C5: RecordFailure while Closed moves to Open if and only if failureCount
\* after the increment is at least failureThreshold; otherwise the state
\* stays Closed.
C5_ClosedFailureThreshold ==
    [][ (op' = "RecordFailure" /\ state = StateClosed) =>
          /\ failureCount' = failureCount + 1
          /\ (state' = StateOpen) <=> (failureCount' >= failureThreshold)
          /\ (state' = StateClosed) <=> (failureCount' < failureThreshold) ]_vars

C5_Witness ==
    /\ op = "RecordFailure"
    /\ prevState = StateClosed
    /\ state = StateOpen
    /\ failureThreshold = 2
    /\ failureCount = 2

\* C6: the breaker is never Closed right after a record operation
\* (RecordSuccess or RecordFailure) made while Closed that leaves
\* totalCount > 0 and successCount/totalCount below successRate.
C6_RateFloorAfterEveryRecord ==
    ( /\ op \in {"RecordSuccess", "RecordFailure"}
      /\ prevState = StateClosed
      /\ totalCount > 0
      /\ successCount * successRate[2] < successRate[1] * totalCount )
    => state = StateOpen

\* C7: RecordSuccess while Closed increments successCount and totalCount and
\* moves to Open if and only if successCount/totalCount after the increment
\* is strictly below successRate; at equality the state stays Closed.
C7_ClosedSuccessRate ==
    [][ (op' = "RecordSuccess" /\ state = StateClosed) =>
          /\ successCount' = successCount + 1
          /\ totalCount' = totalCount + 1
          /\ (state' = StateOpen)
                <=> (successCount' * successRate[2] < successRate[1] * totalCount')
          /\ (state' = StateClosed)
                <=> (successCount' * successRate[2] >= successRate[1] * totalCount') ]_vars

C7_Witness ==
    /\ op = "RecordSuccess"
    /\ prevState = StateClosed
    /\ state = StateClosed
    /\ successCount < totalCount
    /\ successCount * successRate[2] = successRate[1] * totalCount

\* C8: the failure-threshold transition Closed -> Open fires only when the
\* most recent failureThreshold recorded outcomes were all failures.
C8_ThresholdCountsConsecutive ==
    (op = "RecordFailure" /\ prevState = StateClosed /\ state = StateOpen)
    => consecFailures >= failureThreshold

\* C9: the state is always Closed, Open or HalfOpen and changes only along
\* Closed->Open, Open->HalfOpen (by AllowRequest), HalfOpen->Closed (by
\* RecordSuccess) and HalfOpen->Open.
C9_TransitionGraph ==
    /\ [](state \in {StateClosed, StateOpen, StateHalfOpen})
    /\ [][ state' # state =>
             \/ state = StateClosed /\ state' = StateOpen
             \/ state = StateOpen /\ state' = StateHalfOpen /\ op' = "AllowRequest"
             \/ state = StateHalfOpen /\ state' = StateClosed /\ op' = "RecordSuccess"
             \/ state = StateHalfOpen /\ state' = StateOpen ]_vars

C9_Witness ==
    /\ op = "RecordFailure"
    /\ prevState = StateHalfOpen
    /\ state = StateOpen
    /\ successCount > 0

\* C10: every HalfOpen -> Closed transition leaves failureCount = 0, and no
\* other step decreases failureCount.
C10_FailureCountReset ==
    [][ /\ (state = StateHalfOpen /\ state' = StateClosed) => failureCount' = 0
        /\ (failureCount' < failureCount) =>
              (state = StateHalfOpen /\ state' = StateClosed) ]_vars

C10_Witness ==
    /\ prevState = StateHalfOpen
    /\ state = StateClosed
    /\ failureCount = 0
    /\ lastRecordFailure # ZeroTime
    /\ consecFailures = 0

\* ---- C11 .. C20 ----

\* C11: a new breaker is Closed with failureCount = successCount =
\* totalCount = 0, and in every reachable state
\* 0 <= successCount <= totalCount and failureCount >= 0.
C11_CountersWellFormed ==
    /\ op = "NewCircuitBreaker" =>
          /\ state = StateClosed
          /\ failureCount = 0 /\ successCount = 0 /\ totalCount = 0
    /\ 0 <= successCount
    /\ successCount <= totalCount
    /\ failureCount >= 0

C11_Witness ==
    /\ state = StateHalfOpen
    /\ 0 < successCount
    /\ successCount < totalCount
    /\ failureCount > 0

\* C12: AllowRequest while Closed or HalfOpen returns true and changes no
\* field of the breaker; in HalfOpen every admission is granted.
C12_ClosedHalfOpenAdmit ==
    [][ (op' = "AllowRequest" /\ state \in {StateClosed, StateHalfOpen}) =>
          /\ ret' = TRUE
          /\ UNCHANGED << state, failureCount, successCount, totalCount,
                          lastFailureTime, config >> ]_vars

C12_Witness ==
    /\ op = "AllowRequest"
    /\ prevState = StateHalfOpen
    /\ ret = TRUE
    /\ state = StateHalfOpen
    /\ now > lastFailureTime + resetTimeout

\* C13 (as claimed): RecordSuccess while Open changes nothing: state,
\* failureCount, successCount, totalCount and lastFailureTime stay as they
\* were.
C13_OpenSuccessNoOp ==
    [][ (op' = "RecordSuccess" /\ state = StateOpen) =>
          UNCHANGED << state, failureCount, successCount, totalCount,
                       lastFailureTime >> ]_vars

\* C13 (amended): RecordSuccess while Open leaves the state Open and
\* failureCount and lastFailureTime unchanged, and increments successCount
\* and totalCount by one each.
C13_OpenSuccessCounts ==
    [][ (op' = "RecordSuccess" /\ state = StateOpen) =>
          /\ state' = StateOpen
          /\ UNCHANGED << failureCount, lastFailureTime >>
          /\ successCount' = successCount + 1
          /\ totalCount' = totalCount + 1 ]_vars

C13_Witness ==
    /\ op = "RecordSuccess"
    /\ prevState = StateOpen
    /\ state = StateOpen
    /\ successCount > 0
    /\ failureCount >= failureThreshold

\* C14: GetState changes no field of the breaker (it does not make the
\* Open -> HalfOpen transition even when resetTimeout has elapsed) and returns
\* cb.state; repeated calls with no RecordSuccess, RecordFailure or
\* timeout-crossing AllowRequest in between return the same value.
C14_GetStatePureRead ==
    [][ op' = "GetState" =>
          /\ UNCHANGED << state, failureCount, successCount, totalCount,
                          lastFailureTime, config >>
          /\ ret' = state
          /\ lastGot # {} => ret' \in lastGot ]_vars

C14_Witness ==
    /\ op = "GetState"
    /\ ret = StateOpen
    /\ state = StateOpen
    /\ resetTimeout > 0
    /\ now - lastFailureTime >= resetTimeout

\* C15: under every interleaving of concurrent calls the fields of the
\* breaker, whenever no call holds cb.mu for writing, are those left by the
\* calls run one at a time in some order; every return value is the one of
\* that serial run, and the state changed exactly as often as in it (no
\* update or transition lost or duplicated).
C15_Serializable ==
    /\ mu.w = {} => Fields = lin
    /\ mu.w = {} => conc.trans = conc.linTrans
    /\ conc.agree

C15_Witness ==
    /\ \A p \in Procs : pc[p] = "idle"
    /\ conc.calls = 3
    /\ conc.overlaps = 2
    /\ failureThreshold = 2
    /\ failureCount = 3
    /\ totalCount = 3
    /\ state = StateOpen
    /\ conc.trans = 1

\* C16: a request refused because the breaker is Open and its timeout has not
\* elapsed makes no call to the cache service and records nothing: the
\* refusing step leaves the whole breaker (state, counts, generation, expiry)
\* as it was, so a refusal neither counts as a failure nor prolongs the open
\* period.
C16_RefusedMakesNoCallRecordsNothing ==
    [][ \A r \in Reqs :
          (req[r].pc = "new" /\ req'[r].pc = "done" /\ req'[r].err = "ErrOpenState")
          => /\ gb.state = "open"
             /\ gb' = gb
             /\ req'[r].attempts = 0
             /\ req'[r].out = NoOutcome
             /\ req'[r].recorded = "none" ]_vars

C16_Witness ==
    \E r \in Reqs :
       /\ req[r].pc = "done"
       /\ req[r].err = "ErrOpenState"
       /\ req[r].attempts = 0
       /\ gb.state = "open"
       /\ gb.expiry >= now

\* C17: every admitted attempt records exactly one outcome on the breaker: a
\* failure when the call ended in a transport error or a failure-indicating
\* response (status 500 and above), a success otherwise.
C17_OutcomeRecordedByKind ==
    \A r \in Reqs :
       (req[r].pc = "done" /\ req[r].attempts = 1)
       => req[r].recorded =
             (IF req[r].out.kind = "error" \/ req[r].out.status >= 500
              THEN "failure" ELSE "success")

\* C18: what the caller of a request refused by the open breaker gets differs
\* from what the caller of a request gets whose call to the cache service was
\* attempted and failed.
C18_RefusalDistinctFromDownstreamError ==
    \A r \in Reqs :
       (req[r].pc = "done" /\ req[r].err = "ErrOpenState")
       => \A out \in Outcomes :
             ThunkError(out) # "nil"
             => req[r].result # HandlerResponse(req[r].method, ThunkError(out), out)

\* C19: an admitted request makes exactly one call to the cache service and
\* its caller gets the outcome of that call unchanged: the status and body of
\* the response, or the error of the failed call.
C19_OutcomeForwardedUnchanged ==
    \A r \in Reqs :
       (req[r].pc = "done" /\ req[r].err \notin {"ErrOpenState", "ErrTooManyRequests"})
       => /\ req[r].attempts = 1
          /\ req[r].out.kind = "response"
             => req[r].result = [status |-> req[r].out.status, body |-> req[r].out.body]
          /\ req[r].out.kind = "error" => req[r].result.body = req[r].out.body

\* C20: broadcastStateChange runs exactly once per transition of the breaker,
\* with the from and to of that transition, and never without one: a step
\* broadcasts exactly when it changes the state of the breaker.
C20_BroadcastExactlyPerTransition ==
    [][ /\ gb'.state # gb.state => bcast' = Append(bcast, << gb.state, gb'.state >>)
        /\ bcast' # bcast => gb'.state # gb.state ]_vars


\* ---- C21 .. C30 ----

\* C29: a RecordFailure made while Open leaves the state Open, adds one to
\* failureCount and to totalCount and sets lastFailureTime to the time of the
\* call; the reset window then runs from that failure: while less than
\* resetTimeout has passed since the last RecordFailure, AllowRequest on the
\* Open breaker returns false and leaves it Open.
C29_LateFailureRestartsWindow ==
    [][ /\ (op' = "RecordFailure" /\ state = StateOpen)
           => /\ state' = StateOpen
              /\ failureCount' = failureCount + 1
              /\ totalCount' = totalCount + 1
              /\ lastFailureTime' = now
        /\ (op' = "AllowRequest" /\ state = StateOpen
            /\ lastRecordFailure # ZeroTime /\ now - lastRecordFailure < resetTimeout)
           => /\ ret' = FALSE
              /\ state' = StateOpen ]_vars

C29_Witness ==
    /\ op = "RecordFailure"
    /\ prevState = StateOpen
    /\ state = StateOpen
    /\ failRun = failureThreshold + 1
    /\ lastFailureTime = now
    /\ now > 0
    /\ resetTimeout > 0

\* C30: the RecordSuccess that takes the breaker from HalfOpen to Closed
\* leaves successCount, totalCount and failureCount at 0 (it does not count
\* itself), so the Closed breaker starts with the counters of a new one and
\* nothing recorded before the recovery enters its rate or threshold checks.
C30_RecoveryResetsCounters ==
    [][ (op' = "RecordSuccess" /\ state = StateHalfOpen)
        => /\ state' = StateClosed
           /\ successCount' = 0
           /\ totalCount' = 0
           /\ failureCount' = 0 ]_vars

C30_Witness ==
    /\ op = "RecordSuccess"
    /\ prevState = StateHalfOpen
    /\ state = StateClosed
    /\ successCount = 0
    /\ totalCount = 0
    /\ failureCount = 0
    /\ lastFailureTime # ZeroTime

\* the calls admitted by cacheBreaker in its present generation whose outcome
\* is not recorded yet: cache requests and the /test-circuit goroutine
TrialsInFlight ==
    Cardinality({ r \in Reqs : req[r].pc = "calling" /\ req[r].gen = gb.generation })
    + (IF tcg.pc \in {"fail_after", "succ_after"} /\ tcg.gen = gb.generation
       THEN 1 ELSE 0)

\* C27: while cacheBreaker is half-open at most one admitted call is under
\* way: until the outcome of that trial is recorded every other call is
\* refused.
C27_SingleHalfOpenTrial ==
    gb.state = "half-open" => TrialsInFlight <= 1

C27_Witness ==
    /\ gb.state = "half-open"
    /\ tcg.pc = "succ_after"
    /\ tcg.gen = gb.generation
    /\ \E r \in Reqs : req[r].pc = "done" /\ req[r].err = "ErrTooManyRequests"
                       /\ req[r].attempts = 0

\* C26: authMiddleware comes before the breaker: a request without a valid
\* API key is answered 401 and does not reach Execute, so with clients that
\* have no valid key cacheBreaker stays as it was constructed.
C26_NoKeyNeverReachesBreaker ==
    /\ \A r \in Reqs :
          req[r].pc = "done" => (req[r].result.status = 401 /\ req[r].attempts = 0)
    /\ gb.state = "closed"
    /\ gb.generation = 0
    /\ gb.requests = 0
    /\ gb.consecutiveFailures = 0
    /\ gb.consecutiveSuccesses = 0

\* C28: no state of the breaker is terminal: from every reachable state calls
\* exist that take it to Open, then to HalfOpen, then to Closed; and when the
\* breaker is Open (HalfOpen) and no further failure is recorded while time
\* advances and requests keep arriving and succeeding, it becomes HalfOpen
\* (Closed).
C28_NoTerminalState ==
    /\ [](LET p == CycleFrom(Fields, now)
          IN  /\ p[1].state = StateOpen
              /\ p[2].state = StateHalfOpen
              /\ p[3].state = StateClosed)
    /\ (state = StateOpen /\ FailuresStopped) ~> (state = StateHalfOpen)
    /\ (state = StateHalfOpen /\ FailuresStopped) ~> (state = StateClosed)

C28_Witness ==
    /\ FailuresStopped
    /\ op = "RecordSuccess"
    /\ prevState = StateHalfOpen
    /\ state = StateClosed
    /\ resetTimeout > 0
    /\ lastFailureTime # ZeroTime
    /\ now - lastFailureTime >= resetTimeout

\* the number of initial_state messages among the messages written to a
\* connection
InitialStates(inbox) ==
    Cardinality({ i \in 1..Len(inbox) : inbox[i].type = "initial_state" })

\* C21: the /ws handler of a connection reads the state of the breaker right
\* after it registered the connection and sends it as initial_state before it
\* starts reading: a connection gets at most one initial_state, exactly one
\* once its handler is in the read loop, carrying the state the breaker had
\* when the handler asked, with or without any transition.
C21_OneInitialState ==
    [][ \A c \in Conns :
          /\ (ws[c].pc = "state" /\ ws'[c].pc = "send")
             => ws'[c].state = gb'.state
          /\ (ws[c].pc = "send" /\ ws'[c].pc = "reading")
             => conn'[c].inbox =
                   Append(conn[c].inbox,
                          [type |-> "initial_state", state |-> ws[c].state])
          /\ InitialStates(conn'[c].inbox) <= 1
          /\ ws'[c].pc = "reading" => InitialStates(conn'[c].inbox) = 1
          /\ InitialStates(conn'[c].inbox) = 1
             => ws'[c].pc \in {"reading", "exit", "close", "done"} ]_vars

C21_Witness ==
    \E c \in Conns :
       /\ ws[c].pc = "reading"
       /\ conn[c].inbox = << [type |-> "initial_state", state |-> "open"] >>
       /\ gb.state = "open"
       /\ bcast = << << "closed", "open" >> >>

\* the step is the WriteJSON of the loop of slot s to subscriber c
WriteStep(s, c) == bc[s].on /\ bc[s].cur = c /\ bc'[s].cur = 0

HandlerMapWrite(c) ==
    \/ ws[c].pc = "idle" /\ ws'[c].pc = "state"
    \/ ws[c].pc = "exit" /\ ws'[c].pc = "close"

\* the step delivers a state_change event to c
Delivered(c) ==
    /\ Len(conn'[c].inbox) = Len(conn[c].inbox) + 1
    /\ conn'[c].inbox[Len(conn'[c].inbox)].type = "state_change"

\* C23: registry operations are linearizable: a handler's insert or delete
\* never happens while a broadcast ranges over the registry, a broadcast's
\* delete never happens while another broadcast ranges over it, and no event is
\* delivered to a handle that is no longer registered.
C23_RegistryLinearizable ==
    [][ /\ \A c \in Conns :
              HandlerMapWrite(c) => \A s \in Slots : ~bc[s].on
        /\ \A s \in Slots, c \in Conns :
              (WriteStep(s, c) /\ c \notin clients' /\ c \in clients)
                 => \A t \in Slots \ {s} : ~bc[t].on
        /\ \A c \in Conns : Delivered(c) => c \in clients ]_vars

\* C24: broadcasting is never performed while the breaker's lock is held:
\* while a broadcast loop is under way the mutex of cacheBreaker is free, so
\* the admission check and the recording of other requests can proceed.
C24_BroadcastOutsideLock ==
    \A s \in Slots : bc[s].on => gmu = Free

\* positions of the /ws handler of c between clients[conn] = true and the
\* deferred delete(clients, conn)
Registered == { "state", "send", "reading", "exit" }

\* C25: a handle is in the registry only between its connection's
\* registration and its removal: it enters by the handler's registration only,
\* it is out once the handler has run its deferred delete or a broadcast write
\* to it failed, it never comes back, and no broadcast delivers to a handle
\* that is not registered.
C25_RegisteredOnlyWhileConnected ==
    [][ \A c \in Conns :
          /\ c \in clients' => ws'[c].pc \in Registered
          /\ ws'[c].pc \in { "close", "done" } => c \notin clients'
          /\ (c \in clients' /\ c \notin clients)
                => (ws[c].pc = "idle" /\ ws'[c].pc = "state")
          /\ (ws[c].pc = "send" /\ ws'[c].pc = "exit") => conn[c].st # "open"
          /\ (\E s \in Slots : WriteStep(s, c) /\ conn[c].st # "open")
                => c \notin clients'
          /\ Delivered(c) => (c \in clients /\ c \in clients') ]_vars

\* the subscriber got its initial state and the Closed -> Open event, then its
\* connection closed and its handler returned; the later broadcast of
\* Open -> HalfOpen was not delivered to it
C25_Witness ==
    \E c \in Conns :
        /\ ws[c].pc = "done" /\ c \notin clients /\ conn[c].st = "closed"
        /\ Len(conn[c].inbox) = 2
        /\ conn[c].inbox[1] = InitialStateMessage("closed")
        /\ conn[c].inbox[2].type = "state_change" /\ conn[c].inbox[2].to = "open"
        /\ bcast = << << "closed", "open" >>, << "open", "half-open" >> >>
        /\ \A s \in Slots : ~bc[s].on


\* ---- C31 .. C36 ----

\* C31: in every reachable state totalCount = successCount + failureCount; a
\* call either leaves the three counters alone, or adds one to totalCount and
\* to exactly one of successCount and failureCount, or resets all three.
C31_TotalIsSum ==
    [][ /\ totalCount = successCount + failureCount
        /\ totalCount' = successCount' + failureCount'
        /\ \/ UNCHANGED << successCount, failureCount, totalCount >>
           \/ /\ totalCount' = totalCount + 1
              /\ \/ successCount' = successCount + 1 /\ failureCount' = failureCount
                 \/ failureCount' = failureCount + 1 /\ successCount' = successCount
           \/ /\ state = StateHalfOpen /\ op' = "RecordSuccess"
              /\ totalCount' = 0 /\ successCount' = 0 /\ failureCount' = 0 ]_vars

\* two successes and then a failure were counted while Closed
C31_Witness ==
    /\ state = StateClosed
    /\ lastFailureTime # ZeroTime
    /\ failureCount = 1
    /\ successCount = 2
    /\ totalCount = 3
    /\ op = "RecordFailure"

\* C32: however the breaker entered Open (failure threshold, success-rate
\* floor, failed trial), an AllowRequest made less than resetTimeout after the
\* moment it entered Open is refused and leaves it Open.
C32_OpenWindowFromEntry ==
    [][ (op' = "AllowRequest" /\ state = StateOpen /\ now - openedAt < resetTimeout)
          => (ret' = FALSE /\ state' = StateOpen) ]_vars

\* C33: with several requests in flight the step HalfOpen -> Closed is the
\* report of a request that was admitted while the breaker was HalfOpen, never
\* the late success of a request admitted while it was Closed.
C33_ClosedOnlyByTrial ==
    [][ (state = StateHalfOpen /\ state' = StateClosed)
          => \A p \in Procs :
                (flight[p].on /\ ~flight'[p].on) => flight[p].at = StateHalfOpen ]_vars

\* C36: with failureThreshold >= 1 and successRate in [0, 1], whenever the
\* breaker is Open a RecordFailure has been executed: lastFailureTime is the
\* time of a call, not the zero Time, when AllowRequest subtracts it.
C36_OpenHasFailureTime ==
    state = StateOpen =>
        /\ failureThreshold >= 1
        /\ successRate[1] >= 0 /\ successRate[1] <= successRate[2]
        /\ lastRecordFailure # ZeroTime
        /\ lastFailureTime = lastRecordFailure
        /\ failureCount >= 1

\* the success-rate floor opened the breaker below the failure threshold
C36_Witness ==
    /\ op = "RecordSuccess"
    /\ prevState = StateClosed
    /\ state = StateOpen
    /\ failureCount < failureThreshold
    /\ lastFailureTime # ZeroTime
    /\ now > lastFailureTime

\* the breaker state a subscriber knows from the last message it received
LastState(inbox) ==
    LET m == inbox[Len(inbox)] IN
    IF m.type = "initial_state" THEN m.state ELSE m.to

\* nothing is on its way to subscriber c: its initial_state was sent, no
\* broadcast loop is under way and none is about to start
Settled(c) ==
    /\ ws[c].pc = "reading"
    /\ c \in clients
    /\ conn[c].st = "open"
    /\ \A s \in Slots : ~bc[s].on
    /\ tcg.pc # "forced"
    /\ gmu = Free

\* C34: a subscriber that stays registered is never left with a stale view:
\* once every pending message has been delivered, the state carried by the
\* last message it received is the state of the breaker.
C34_NoStaleView ==
    \A c \in Conns : Settled(c) => LastState(conn[c].inbox) = gb.state

\* the goroutines inside a WriteJSON on connection c: a broadcast loop that
\* has taken c from the range until its write returns, and the /ws handler of
\* c from the return of State() until its initial_state write returns
WritersTo(c) ==
    { Owner(s) : s \in { t \in Slots : bc[t].on /\ bc[t].cur = c } }
       \cup (IF ws[c].pc = "send" /\ gmu # WsG(c) THEN { WsG(c) } ELSE {})

\* C35: at most one goroutine writes to a given subscriber connection at any
\* time: the initial_state send of its handler and the state_change sends of
\* the broadcasts never overlap.
C35_SingleWriter ==
    \A c \in Conns : Cardinality(WritersTo(c)) <= 1

====
